---- MODULE Spec2Model ----
(***************************************************************************)
(* A model of ft60x-rs: the D3XX session layer (src/src/lib.rs), the       *)
(* status-code translation (src/src/error.rs) and the chunked bulk         *)
(* transfer of Ft60xDevice (src/src/device.rs).                            *)
(*                                                                         *)
(* Every handler is an operator that computes, from its arguments and the  *)
(* answers of the native layer, the native calls it issues (in order) and  *)
(* the result it hands to the caller; an action applies one handler.       *)
(***************************************************************************)
EXTENDS Integers, Sequences, FiniteSets, TLC

VARIABLES
    attached,    \* native layer: the devices plugged in
    ftHandle,    \* native layer: device -> handle it is open under (0: not open)
    nextHandle,  \* native layer: the next handle FT_Create hands out
    live,        \* the Device values the caller owns, by their handle
    closes,      \* history: handle -> number of FT_Close calls issued on it
    late,        \* history: handles a native call was issued on after their FT_Close
    op,          \* the last operation called and its arguments
    calls,       \* the native calls the last operation issued, in order
    result,      \* what the last operation handed to its caller
    xl,          \* status translation: the raw code and its translation
    bulk,        \* Ft60xDevice: the last chunked transfer, its bulk calls and result
    tmo,         \* pipe timeouts of one session: the native table and the last call
    info,        \* Device::info of one session, step by step, beside an enumerating thread
    enum,        \* list_device on a native list of any length
    dec,         \* c_str_to_string on a fixed-size text buffer
    pure         \* a pure function of lib.rs, its argument and its value

auxVars == <<tmo, info, enum, dec, pure>>
vars == <<attached, ftHandle, nextHandle, live, closes, late, op, calls, result, xl, bulk,
          auxVars>>
sessVars == <<attached, ftHandle, nextHandle, live, closes, late, op, calls, result>>

\* The parts of the model a specification does not use stay empty.
AuxIdle ==
    /\ tmo = <<>>
    /\ info = <<>>
    /\ enum = <<>>
    /\ dec = <<>>
    /\ pure = <<>>

(***************************************************************************)
(* Bounds of the model.                                                    *)
(***************************************************************************)
MaxHandles == 2
MaxBufLen == 1
MaxSerialLen == 1
MaxStatus == 64
MaxChunks == 4
MaxSets == 2
MaxCount == 33
MaxBeyond == 2

(***************************************************************************)
(* Results: Ok(v), Err(e) and a panic that unwinds out of the call.        *)
(* A value is a tuple, so that Rust's unit () is the empty tuple.          *)
(***************************************************************************)
Ok(v) == [kind |-> "Ok", err |-> "", val |-> v]
Err(e) == [kind |-> "Err", err |-> e, val |-> <<>>]
Panic == [kind |-> "Panic", err |-> "", val |-> <<>>]
NoResult == [kind |-> "None", err |-> "", val |-> <<>>]

(***************************************************************************)
(* error.rs: D3xxError and From<FT_STATUS>.                                *)
(***************************************************************************)
\* The discriminants of the enum D3xxError.
D3xxError ==
    { <<"InvalidHandle", 1>>, <<"DeviceNotFound", 2>>, <<"DeviceNotOpened", 3>>,
      <<"IoError", 4>>, <<"InsufficientResources", 5>>, <<"InvalidParameter", 6>>,
      <<"InvalidBaudRate", 7>>, <<"DeviceNotOpenedForErase", 8>>,
      <<"DeviceNotOpenedForWrite", 9>>, <<"FailedToWriteDevice", 10>>,
      <<"EEPROMReadFailed", 11>>, <<"EEPROMWriteFailed", 12>>,
      <<"EEPROMEraseFailed", 13>>, <<"EEPROMNotPresent", 14>>,
      <<"EEPROMNotProgrammed", 15>>, <<"InvalidArgs", 16>>, <<"NotSupported", 17>>,
      <<"NoMoreItems", 18>>, <<"Timeout", 19>>, <<"OperationAborted", 20>>,
      <<"ReservedPipe", 21>>, <<"InvalidControlRequestDirection", 22>>,
      <<"InvalidControLRequestType", 23>>, <<"IoPending", 24>>, <<"IoIncomplete", 25>>,
      <<"HandleEof", 26>>, <<"Busy", 27>>, <<"NoSystemResources", 28>>,
      <<"DeviceListNotReady", 29>>, <<"DeviceNotConnected", 30>>,
      <<"IncorrectDevicePath", 31>>, <<"OtherError", 32>>,
      <<"LibraryLoadFailed", 33>> }

\* `e as u32`: the numeric value of an error kind.
as_u32(e) == (CHOOSE p \in D3xxError : p[1] = e)[2]

\* A mutant of D3xxError_from: the unknown codes default to OtherError.
D3xxError_from_default(id) ==
    IF id \in 1..32 THEN (CHOOSE p \in D3xxError : p[2] = id)[1] ELSE "OtherError"

\* A mutant of D3xxError_from: two neighbouring arms are swapped.
D3xxError_from_swapped(id) ==
    CASE id = 22 -> "InvalidControLRequestType"
      [] id = 23 -> "InvalidControlRequestDirection"
      [] id \in (1..32) \ {22, 23} -> (CHOOSE p \in D3xxError : p[2] = id)[1]
      [] OTHER -> "panic!"

\* D3xxError::from(id); "panic!" stands for the panic of the last arm.
D3xxError_from(id) ==
    CASE id = 1 -> "InvalidHandle"
      [] id = 2 -> "DeviceNotFound"
      [] id = 3 -> "DeviceNotOpened"
      [] id = 4 -> "IoError"
      [] id = 5 -> "InsufficientResources"
      [] id = 6 -> "InvalidParameter"
      [] id = 7 -> "InvalidBaudRate"
      [] id = 8 -> "DeviceNotOpenedForErase"
      [] id = 9 -> "DeviceNotOpenedForWrite"
      [] id = 10 -> "FailedToWriteDevice"
      [] id = 11 -> "EEPROMReadFailed"
      [] id = 12 -> "EEPROMWriteFailed"
      [] id = 13 -> "EEPROMEraseFailed"
      [] id = 14 -> "EEPROMNotPresent"
      [] id = 15 -> "EEPROMNotProgrammed"
      [] id = 16 -> "InvalidArgs"
      [] id = 17 -> "NotSupported"
      [] id = 18 -> "NoMoreItems"
      [] id = 19 -> "Timeout"
      [] id = 20 -> "OperationAborted"
      [] id = 21 -> "ReservedPipe"
      [] id = 22 -> "InvalidControlRequestDirection"
      [] id = 23 -> "InvalidControLRequestType"
      [] id = 24 -> "IoPending"
      [] id = 25 -> "IoIncomplete"
      [] id = 26 -> "HandleEof"
      [] id = 27 -> "Busy"
      [] id = 28 -> "NoSystemResources"
      [] id = 29 -> "DeviceListNotReady"
      [] id = 30 -> "DeviceNotConnected"
      [] id = 31 -> "IncorrectDevicePath"
      [] id = 32 -> "OtherError"
      [] OTHER -> "panic!"

\* d3xx_error!(status): the success sentinel 0 is Ok(()), every other status
\* goes through D3xxError::from.
d3xx_error(status) ==
    IF status = 0 THEN Ok(<<>>)
    ELSE IF D3xxError_from(status) = "panic!" THEN Panic
    ELSE Err(D3xxError_from(status))

(***************************************************************************)
(* lib.rs: Pipe.                                                           *)
(***************************************************************************)
Pipe == {"In0", "In1", "In2", "In3", "Out0", "Out1", "Out2", "Out3"}

\* `pipe as c_uchar`: the discriminant of the enum, the endpoint address.
pipe_as_c_uchar(pipe) ==
    CASE pipe = "In0" -> 130
      [] pipe = "In1" -> 131
      [] pipe = "In2" -> 132
      [] pipe = "In3" -> 133
      [] pipe = "Out0" -> 2
      [] pipe = "Out1" -> 3
      [] pipe = "Out2" -> 4
      [] pipe = "Out3" -> 5

\* A mutant of is_read_pipe: the masked address bit is compared with 1, which
\* no address satisfies.
is_read_pipe_masked(pipe) ==
    ((pipe_as_c_uchar(pipe) \div 128) % 2) * 128 = 1

is_read_pipe(pipe) ==
    CASE pipe \in {"In0", "In1", "In2", "In3"} -> TRUE
      [] pipe \in {"Out0", "Out1", "Out2", "Out3"} -> FALSE

\* A mutant of is_write_pipe: the direction test compares the masked address
\* bit with 1, which no address satisfies, so its negation lets every pipe pass.
is_write_pipe_masked(pipe) ==
    ~(((pipe_as_c_uchar(pipe) \div 128) % 2) * 128 = 1)

is_write_pipe(pipe) ==
    CASE pipe \in {"In0", "In1", "In2", "In3"} -> FALSE
      [] pipe \in {"Out0", "Out1", "Out2", "Out3"} -> TRUE

(***************************************************************************)
(* The native layer (the D3XX library behind bindings.rs).  A native call  *)
(* is logged with the handle and the pipe address it was issued on and the *)
(* status it returned.                                                     *)
(***************************************************************************)
Devices == {"devA", "devB"}

\* The bytes of a serial number; 0 is the nul byte.
Bytes == {0, 65, 66}

\* The serial number of each device, as the native layer knows it.
SerialNumber(d) == IF d = "devA" THEN <<65>> ELSE <<66>>

\* Every string a caller may pass as a serial number.
Strings == UNION { [1..n -> Bytes] : n \in 0..MaxSerialLen }

Handles == 1..MaxHandles

\* The statuses the native layer answers with: success, two errors of the
\* table, and a code the table does not know.
FT_OK == 0
FT_DEVICE_NOT_FOUND == 2
FT_IO_ERROR == 4
FT_TIMEOUT == 19
FT_UNKNOWN == 33
Failures == {FT_IO_ERROR, FT_TIMEOUT, FT_UNKNOWN}

Call(fn, handle, pipe, status) ==
    [fn |-> fn, handle |-> handle, pipe |-> pipe, arg |-> <<>>, status |-> status]

\* FT_Create(pvArg, FT_OPEN_BY_SERIAL_NUMBER, &handle): pvArg is the C string.
FT_Create(pvArg, status) ==
    [fn |-> "FT_Create", handle |-> 0, pipe |-> 0, arg |-> pvArg, status |-> status]

\* A handle is valid while the device it was opened on is attached.
Valid(h) == \E d \in attached : ftHandle[d] = h

\* What a native call on handle h may answer: it succeeds only on a valid
\* handle, and may fail on any.
Answers(h) == IF Valid(h) THEN {FT_OK} \cup Failures ELSE Failures

\* The byte count a transfer of `len` bytes reports: at most len, and written
\* only by a transfer that succeeds.
BytesAnswers(status, len) == IF status = FT_OK THEN 0..len ELSE {0}

\* What FT_AbortPipe may answer; it matters only after a transfer that failed.
AbortAnswers(h, status) ==
    IF status \in {FT_IO_ERROR, FT_TIMEOUT} THEN Answers(h) ELSE {FT_OK}

\* FT_Close may succeed on an orphaned handle too.
CloseAnswers == {FT_OK, FT_IO_ERROR}

\* FT_Create by serial number: no attached device of that serial number is
\* FT_DEVICE_NOT_FOUND; a device already open fails the second open.
CreateAnswers(cstr) ==
    IF \A d \in attached : SerialNumber(d) # cstr THEN {FT_DEVICE_NOT_FOUND}
    ELSE IF \E d \in attached : SerialNumber(d) = cstr /\ ftHandle[d] = 0
              /\ nextHandle <= MaxHandles
         THEN {FT_OK} \cup Failures
         ELSE Failures

(***************************************************************************)
(* lib.rs: Device.  A handler yields [calls, result]: the native calls it  *)
(* issues, in order, and what the caller gets.                             *)
(***************************************************************************)
Out(cs, r) == [calls |-> cs, result |-> r]

\* CString::new(serial_number): an interior nul byte is an error.
CString_new(s) ==
    IF \E i \in 1..Len(s) : s[i] = 0 THEN Err("NulError") ELSE Ok(s)

\* A mutant of open_with_serial_number: the serial number is cut at its first
\* nul byte instead of being refused.
open_with_serial_number_cut(serial_number, status, handle) ==
    LET nul == { i \in 1..Len(serial_number) : serial_number[i] = 0 }
        cut == IF nul = {} THEN serial_number
               ELSE SubSeq(serial_number, 1,
                           (CHOOSE i \in nul : \A j \in nul : i <= j) - 1)
        create == FT_Create(cut, status)
    IN  IF d3xx_error(status).kind # "Ok" THEN Out(<<create>>, d3xx_error(status))
        ELSE Out(<<create>>, Ok(<<handle>>))

\* Device::open_with_serial_number; `status` and `handle` are what FT_Create
\* answers.  Ok carries the handle of the Device made by from_handle.
open_with_serial_number(serial_number, status, handle) ==
    IF CString_new(serial_number).kind = "Err" THEN Out(<<>>, Err("InvalidParameter"))
    ELSE LET create == FT_Create(CString_new(serial_number).val, status)
         IN  IF d3xx_error(status).kind # "Ok"
             THEN Out(<<create>>, d3xx_error(status))
             ELSE Out(<<create>>, Ok(<<handle>>))

\* Device::abort_transfers.
abort_transfers(handle, pipe, status) ==
    Out(<<Call("FT_AbortPipe", handle, pipe_as_c_uchar(pipe), status)>>,
        d3xx_error(status))

\* `expr?` on the Result of abort_transfers followed by `return Err(e)`.
AbortThenReturn(xfer, e, ab) ==
    Out(<<xfer>> \o ab.calls, IF ab.result.kind = "Ok" THEN e ELSE ab.result)

\* A mutant of Device_write: the failed transfer is returned without the abort.
Device_write_no_abort(handle, pipe, len, status, bytes_transferred, abort_status) ==
    IF ~is_write_pipe(pipe) THEN Out(<<>>, Err("InvalidParameter"))
    ELSE LET xfer == Call("FT_WritePipeEx", handle, 2, status)
         IN  IF d3xx_error(status).kind = "Ok"
             THEN Out(<<xfer>>, Ok(<<bytes_transferred>>))
             ELSE Out(<<xfer>>, d3xx_error(status))

\* Device::write; the transfer is issued on the literal pipe id 0x02.
Device_write(handle, pipe, len, status, bytes_transferred, abort_status) ==
    IF ~is_write_pipe(pipe) THEN Out(<<>>, Err("InvalidParameter"))
    ELSE LET xfer == Call("FT_WritePipeEx", handle, 2, status)
         IN  CASE d3xx_error(status).kind = "Ok" ->
                    Out(<<xfer>>, Ok(<<bytes_transferred>>))
               [] d3xx_error(status).kind = "Panic" -> Out(<<xfer>>, Panic)
               [] d3xx_error(status).kind = "Err" ->
                    AbortThenReturn(xfer, d3xx_error(status),
                                    abort_transfers(handle, pipe, abort_status))

\* Device::read.
Device_read(handle, pipe, len, status, bytes_transferred, abort_status) ==
    IF ~is_read_pipe(pipe) THEN Out(<<>>, Err("InvalidParameter"))
    ELSE LET xfer == Call("FT_ReadPipeEx", handle, pipe_as_c_uchar(pipe), status)
         IN  CASE d3xx_error(status).kind = "Ok" ->
                    Out(<<xfer>>, Ok(<<bytes_transferred>>))
               [] d3xx_error(status).kind = "Panic" -> Out(<<xfer>>, Panic)
               [] d3xx_error(status).kind = "Err" ->
                    AbortThenReturn(xfer, d3xx_error(status),
                                    abort_transfers(handle, pipe, abort_status))

\* A mutant of drop: the handle is forgotten without FT_Close.
drop_leak(handle, status) == Out(<<>>, Ok(<<>>))

\* Drop for Device: FT_Close, and a panic when it fails.
drop(handle, status) ==
    Out(<<Call("FT_Close", handle, 0, status)>>,
        IF status = 0 THEN Ok(<<>>) ELSE Panic)

\* Device::power_cycle_port(self): FT_CycleDevicePort, then self goes out of
\* scope (on return as on unwinding) and is dropped.
power_cycle_port(handle, status, close_status) ==
    LET cycle == Call("FT_CycleDevicePort", handle, 0, status)
        d == drop(handle, close_status)
    IN  Out(<<cycle>> \o d.calls,
            IF d.result.kind = "Panic" THEN Panic ELSE d3xx_error(status))

(***************************************************************************)
(* The session specification: a caller that opens, uses and drops Devices, *)
(* and an environment that plugs devices in and out.                       *)
(***************************************************************************)
\* The history after the calls log[i..]: FT_Close calls counted per handle, and
\* the handles a call was issued on after their FT_Close.
RECURSIVE Account(_, _, _, _)
Account(log, i, cl, lt) ==
    IF i > Len(log) THEN [closes |-> cl, late |-> lt]
    ELSE LET c == log[i]
             lt2 == IF c.handle \in Handles /\ cl[c.handle] > 0
                    THEN lt \cup {c.handle} ELSE lt
             cl2 == IF c.handle \in Handles /\ c.fn = "FT_Close"
                    THEN [cl EXCEPT ![c.handle] = @ + 1] ELSE cl
         IN  Account(log, i + 1, cl2, lt2)

Op(name, handle, pipe, serial) ==
    [name |-> name, handle |-> handle, pipe |-> pipe, serial |-> serial]

\* The caller sees `out` of the operation `o`.
Return(o, out) ==
    /\ op' = o
    /\ calls' = out.calls
    /\ result' = out.result
    /\ closes' = Account(out.calls, 1, closes, late).closes
    /\ late' = Account(out.calls, 1, closes, late).late

Init ==
    /\ attached \in SUBSET Devices
    /\ ftHandle = [d \in Devices |-> 0]
    /\ nextHandle = 1
    /\ live = {}
    /\ closes = [h \in Handles |-> 0]
    /\ late = {}
    /\ op = Op("none", 0, "", <<>>)
    /\ calls = <<>>
    /\ result = NoResult
    /\ xl = <<>>
    /\ bulk = <<>>
    /\ AuxIdle

\* A device is plugged in.
Attach ==
    \E d \in Devices \ attached :
        /\ attached' = attached \cup {d}
        /\ ftHandle' = [ftHandle EXCEPT ![d] = 0]
        /\ Return(Op("none", 0, "", <<>>), Out(<<>>, NoResult))
        /\ UNCHANGED <<nextHandle, live, xl, bulk, auxVars>>

\* A device is unplugged; a session open on it is orphaned.
Detach ==
    \E d \in attached :
        /\ attached' = attached \ {d}
        /\ ftHandle' = [ftHandle EXCEPT ![d] = 0]
        /\ Return(Op("none", 0, "", <<>>), Out(<<>>, NoResult))
        /\ UNCHANGED <<nextHandle, live, xl, bulk, auxVars>>

\* Device::open_with_serial_number(serial).
Open ==
    \E serial \in Strings, status \in {FT_OK, FT_DEVICE_NOT_FOUND} \cup Failures :
        LET out == open_with_serial_number(serial, status, nextHandle)
            made == out.result.kind = "Ok"
            opened == out.calls # <<>> /\ out.calls[1].status = FT_OK
        IN  \* the native layer answers the FT_Create that was issued
            /\ IF out.calls = <<>> THEN status = FT_OK
               ELSE status \in CreateAnswers(out.calls[1].arg)
            /\ Return(Op("open", 0, "", serial), out)
            /\ live' = IF made THEN live \cup {nextHandle} ELSE live
            /\ nextHandle' = IF opened THEN nextHandle + 1 ELSE nextHandle
            /\ ftHandle' = IF opened
                           THEN [d \in Devices |->
                                    IF d \in attached
                                       /\ SerialNumber(d) = out.calls[1].arg
                                    THEN nextHandle ELSE ftHandle[d]]
                           ELSE ftHandle
            /\ UNCHANGED <<attached, xl, bulk, auxVars>>

\* Device::read(&self, pipe, buf).
Read ==
    \E h \in live, pipe \in Pipe, len \in {MaxBufLen} :
        \E status \in Answers(h) :
            \E n \in BytesAnswers(status, len), abort_status \in AbortAnswers(h, status) :
                /\ Return(Op("read", h, pipe, <<>>),
                          Device_read(h, pipe, len, status, n, abort_status))
                /\ UNCHANGED <<attached, ftHandle, nextHandle, live, xl, bulk, auxVars>>

\* Device::write(&self, pipe, buf).
Write ==
    \E h \in live, pipe \in Pipe, len \in {MaxBufLen} :
        \E status \in Answers(h) :
            \E n \in BytesAnswers(status, len), abort_status \in AbortAnswers(h, status) :
                /\ Return(Op("write", h, pipe, <<>>),
                          Device_write(h, pipe, len, status, n, abort_status))
                /\ UNCHANGED <<attached, ftHandle, nextHandle, live, xl, bulk, auxVars>>

\* Device::power_cycle_port(self): the session is consumed.
PowerCyclePort ==
    \E h \in live :
        \E status \in Answers(h), close_status \in CloseAnswers :
            /\ Return(Op("power_cycle_port", h, "", <<>>),
                      power_cycle_port(h, status, close_status))
            /\ live' = live \ {h}
            /\ ftHandle' = [d \in Devices |->
                                IF ftHandle[d] = h THEN 0 ELSE ftHandle[d]]
            /\ UNCHANGED <<attached, nextHandle, xl, bulk, auxVars>>

\* A Device goes out of scope.
Drop ==
    \E h \in live, status \in CloseAnswers :
        /\ Return(Op("drop", h, "", <<>>), drop(h, status))
        /\ live' = live \ {h}
        /\ ftHandle' = [d \in Devices |-> IF ftHandle[d] = h THEN 0 ELSE ftHandle[d]]
        /\ UNCHANGED <<attached, nextHandle, xl, bulk, auxVars>>

Next ==
    \/ Attach
    \/ Detach
    \/ Open
    \/ Read
    \/ Write
    \/ PowerCyclePort
    \/ Drop

Spec == Init /\ [][Next]_vars

(***************************************************************************)
(* Claims about the session layer, checked under Spec.                     *)
(***************************************************************************)
ReadPipes == {"In0", "In1", "In2", "In3"}
WritePipes == {"Out0", "Out1", "Out2", "Out3"}
IsTransfer(c) == c.fn \in {"FT_ReadPipeEx", "FT_WritePipeEx"}
HasNul(s) == \E i \in 1..Len(s) : s[i] = 0

\* C1: FT_Close is issued exactly once on the handle of every session that
\* open made and that is gone (dropped or consumed by power_cycle_port), never
\* on a session still owned, and no native call is issued on a handle after
\* its FT_Close; power_cycle_port leaves no session to operate on.
C1_ClosedExactlyOnce ==
    /\ \A h \in Handles :
        /\ closes[h] <= 1
        /\ (h < nextHandle /\ h \notin live) => closes[h] = 1
        /\ h \in live => closes[h] = 0
        /\ h \notin late
    /\ op.name = "power_cycle_port" => op.handle \notin live

\* C1 witness: power_cycle_port has consumed a session: the port cycle, then
\* the one FT_Close of its handle.
C1_Witness ==
    /\ op.name = "power_cycle_port"
    /\ Len(calls) = 2
    /\ calls[1].fn = "FT_CycleDevicePort"
    /\ calls[2].fn = "FT_Close"
    /\ closes[op.handle] = 1

\* C2: when a read or write returns to its caller after its native transfer
\* answered a non-success status, the call right after the transfer is
\* FT_AbortPipe on the same handle and on the pipe the caller named, and it is
\* the last native call.
C2_AbortFollowsFailedTransfer ==
    (op.name \in {"read", "write"} /\ result.kind \in {"Ok", "Err"}) =>
        \A i \in 1..Len(calls) :
            (IsTransfer(calls[i]) /\ calls[i].status # FT_OK) =>
                /\ Len(calls) = i + 1
                /\ calls[i + 1].fn = "FT_AbortPipe"
                /\ calls[i + 1].handle = op.handle
                /\ calls[i + 1].pipe = pipe_as_c_uchar(op.pipe)

\* C2 witness: a write whose transfer failed has returned an error.
C2_Witness ==
    /\ op.name = "write"
    /\ result.kind = "Err"
    /\ Len(calls) = 2
    /\ calls[1].fn = "FT_WritePipeEx"
    /\ calls[1].status = FT_TIMEOUT

\* C3 (as claimed): a read or write whose transfer failed with an error of the
\* table returns that error, whatever the recovery abort answered.
C3_OriginalErrorSurfaces ==
    (/\ op.name \in {"read", "write"}
     /\ result.kind \in {"Ok", "Err"}
     /\ calls # <<>>
     /\ calls[1].status \in 1..32) =>
        /\ result.kind = "Err"
        /\ as_u32(result.err) = calls[1].status

\* C4: write on a read pipe and read on a write pipe return InvalidParameter
\* and issue no native call.
C4_WrongDirectionNoNativeCall ==
    (\/ op.name = "write" /\ op.pipe \in ReadPipes
     \/ op.name = "read" /\ op.pipe \in WritePipes) =>
        /\ result = Err("InvalidParameter")
        /\ calls = <<>>

\* C4 witness: a write on the read pipe In2 was refused.
C4_Witness ==
    /\ op.name = "write"
    /\ op.pipe = "In2"
    /\ result.kind = "Err"
    /\ live # {}

\* C10: an open by a serial number with an embedded nul byte returns
\* InvalidParameter and issues no native call; an open by a serial number of
\* no attached device returns DeviceNotFound; neither makes a session.
C10_OpenFailures ==
    [][op'.name = "open" =>
        /\ HasNul(op'.serial) =>
            /\ result' = Err("InvalidParameter")
            /\ calls' = <<>>
            /\ live' = live
        /\ (~HasNul(op'.serial) /\ \A d \in attached : SerialNumber(d) # op'.serial) =>
            /\ result' = Err("DeviceNotFound")
            /\ live' = live]_vars

\* C10 witness: with a session open on another device, an open by the serial
\* number of a detached device answered DeviceNotFound.
C10_Witness ==
    /\ op.name = "open"
    /\ op.serial = SerialNumber("devB")
    /\ "devB" \notin attached
    /\ result = Err("DeviceNotFound")
    /\ live # {}

(***************************************************************************)
(* The translation specification: d3xx_error! applied to a raw status.     *)
(***************************************************************************)
\* FT_STATUS is a c_ulong: the codes up to the bound, and a large one.
StatusCodes == (0..MaxStatus) \cup {2147483647}

\* The session layer at rest.
Idle ==
    /\ attached = {}
    /\ ftHandle = [d \in Devices |-> 0]
    /\ nextHandle = 1
    /\ live = {}
    /\ closes = [h \in Handles |-> 0]
    /\ late = {}
    /\ op = Op("none", 0, "", <<>>)
    /\ calls = <<>>
    /\ result = NoResult

InitStatus ==
    /\ Idle
    /\ xl \in { [status |-> c, result |-> NoResult] : c \in StatusCodes }
    /\ bulk = <<>>
    /\ AuxIdle

\* A native call has returned xl.status and the macro translates it.
Translate ==
    /\ xl.result = NoResult
    /\ xl' = [xl EXCEPT !.result = d3xx_error(xl.status)]
    /\ UNCHANGED <<sessVars, bulk, auxVars>>

NextStatus == Translate

SpecStatus == InitStatus /\ [][NextStatus]_vars

\* C8: a status in 0..32 translates to Ok exactly when it is 0, and a status in
\* 1..32 to the error kind whose numeric value is the status, from
\* InvalidHandle for 1 to OtherError for 32.
C8_TranslationTable ==
    (xl.result # NoResult /\ xl.status \in 0..32) =>
        /\ xl.result.kind = "Ok" <=> xl.status = 0
        /\ xl.status \in 1..32 =>
            /\ xl.result.kind = "Err"
            /\ as_u32(xl.result.err) = xl.status
        /\ xl.status = 1 => xl.result = Err("InvalidHandle")
        /\ xl.status = 32 => xl.result = Err("OtherError")

\* C8 witness: the status 23 has been translated to an error.
C8_Witness ==
    /\ xl.status = 23
    /\ xl.result.kind = "Err"

\* C9: a status outside 0..32 ends in a panic: it is never Ok, OtherError or
\* any other error kind.
C9_UnknownStatusPanics ==
    (xl.result # NoResult /\ xl.status \notin 0..32) => xl.result = Panic

\* C9 witness: the status 33, the first the table does not know, has panicked.
C9_Witness ==
    /\ xl.status = 33
    /\ xl.result = Panic

(***************************************************************************)
(* device.rs: Ft60xDevice, the chunked bulk read and write.  A bulk call   *)
(* is logged with its endpoint, the offset and length of the chunk it was  *)
(* given and the amount it reported (-1: the call itself failed).          *)
(***************************************************************************)
blocksize == 32768

\* How the transport answers the bulk call of one chunk.
BulkAnswers == {"full", "short", "error"}

\* The amount a bulk call on `len` bytes reports.
Amount(answer, len) ==
    CASE answer = "full" -> len
      [] answer = "short" -> len - 1
      [] answer = "error" -> -1

BulkCall(fn, endpoint, offset, len, amount) ==
    [fn |-> fn, endpoint |-> endpoint, offset |-> offset, len |-> len,
     amount |-> amount]

\* The buffer lengths tried: around every multiple of the block size.
BufLens ==
    { k * blocksize + r : k \in 0..(MaxChunks - 1), r \in {0, 1, 1696, blocksize - 1} }
        \cup {MaxChunks * blocksize}

\* The loop goes on to the next chunk.
Continue == [kind |-> "Continue", err |-> "", val |-> <<>>]

\* A mutant of read_chunk: a short read is not looked at.
read_chunk_unchecked(chunk_len, read_amount) ==
    IF read_amount < 0 THEN Err("rusb::Error") ELSE Continue

\* The body of the loop of Ft60xDevice::read, after read_bulk has answered.
read_chunk(chunk_len, read_amount) ==
    IF read_amount < 0 THEN Err("rusb::Error")
    ELSE IF read_amount # chunk_len THEN Err("ReadError")
    ELSE Continue

\* A mutant of write_chunk: a short write is not looked at.
write_chunk_unchecked(chunk_len, write_amount) ==
    IF write_amount < 0 THEN Err("rusb::Error") ELSE Continue

\* The body of the loop of Ft60xDevice::write, after write_bulk has answered.
write_chunk(chunk_len, write_amount) ==
    IF write_amount < 0 THEN Err("rusb::Error")
    ELSE IF write_amount # chunk_len THEN Err("WriteError")
    ELSE Continue

\* buf.chunks(blocksize): the length of the next chunk of what is left.
chunk_len(rest) == IF rest < blocksize THEN rest ELSE blocksize

\* `for chunk in buf.chunks_mut(blocksize)` of Ft60xDevice::read, from the
\* chunk number i at `offset` on; Ok(()) after the last chunk.
RECURSIVE read_chunks(_, _, _, _, _)
read_chunks(len, offset, i, answers, log) ==
    IF offset >= len THEN Out(log, Ok(<<>>))
    ELSE LET n == chunk_len(len - offset)
             amount == Amount(answers[i], n)
             call == BulkCall("read_bulk", 130, offset, n, amount)
         IN  IF read_chunk(n, amount) # Continue
             THEN Out(Append(log, call), read_chunk(n, amount))
             ELSE read_chunks(len, offset + n, i + 1, answers, Append(log, call))

\* `for chunk in buf.chunks(blocksize)` of Ft60xDevice::write.
RECURSIVE write_chunks(_, _, _, _, _)
write_chunks(len, offset, i, answers, log) ==
    IF offset >= len THEN Out(log, Ok(<<>>))
    ELSE LET n == chunk_len(len - offset)
             amount == Amount(answers[i], n)
             call == BulkCall("write_bulk", 128, offset, n, amount)
         IN  IF write_chunk(n, amount) # Continue
             THEN Out(Append(log, call), write_chunk(n, amount))
             ELSE write_chunks(len, offset + n, i + 1, answers, Append(log, call))

\* Ft60xDevice::read(&mut self, buf) on a buffer of `len` bytes.
Ft60xDevice_read(len, answers) == read_chunks(len, 0, 1, answers, <<>>)

\* Ft60xDevice::write(&mut self, buf) on a buffer of `len` bytes.
Ft60xDevice_write(len, answers) == write_chunks(len, 0, 1, answers, <<>>)

(***************************************************************************)
(* The chunked-transfer specification: one read or write of a buffer, with *)
(* the answers the transport gives chunk by chunk.                         *)
(***************************************************************************)
InitBulk ==
    /\ Idle
    /\ xl = <<>>
    /\ AuxIdle
    /\ bulk \in { [name |-> o, len |-> n, answers |-> a, calls |-> <<>>,
                   result |-> NoResult] :
                    o \in {"read", "write"}, n \in BufLens,
                    a \in [1..MaxChunks -> BulkAnswers] }

BulkRead ==
    /\ bulk.name = "read"
    /\ bulk.result = NoResult
    /\ bulk' = [bulk EXCEPT !.calls = Ft60xDevice_read(bulk.len, bulk.answers).calls,
                            !.result = Ft60xDevice_read(bulk.len, bulk.answers).result]
    /\ UNCHANGED <<sessVars, xl, auxVars>>

BulkWrite ==
    /\ bulk.name = "write"
    /\ bulk.result = NoResult
    /\ bulk' = [bulk EXCEPT !.calls = Ft60xDevice_write(bulk.len, bulk.answers).calls,
                            !.result = Ft60xDevice_write(bulk.len, bulk.answers).result]
    /\ UNCHANGED <<sessVars, xl, auxVars>>

NextBulk ==
    \/ BulkRead
    \/ BulkWrite

SpecBulk == InitBulk /\ [][NextBulk]_vars

(***************************************************************************)
(* Claims about the chunked transfer, checked under SpecBulk.              *)
(***************************************************************************)
BulkDone == bulk.result # NoResult

\* The bulk call i reported fewer bytes than its chunk holds.
ShortAt(i) == bulk.calls[i].amount >= 0 /\ bulk.calls[i].amount < bulk.calls[i].len

\* ceil(n / blocksize).
CeilBlocks(n) == (n + blocksize - 1) \div blocksize

\* C5: a chunk reported short makes the chunked read return ReadError and the
\* chunked write WriteError, and no bulk call follows it.
C5_ShortChunkStops ==
    BulkDone =>
        \A i \in 1..Len(bulk.calls) :
            ShortAt(i) =>
                /\ i = Len(bulk.calls)
                /\ bulk.result =
                     Err(IF bulk.name = "read" THEN "ReadError" ELSE "WriteError")

\* C5 witness: the second of four chunks of a read was short, and the read
\* ended there with ReadError.
C5_Witness ==
    /\ BulkDone
    /\ bulk.name = "read"
    /\ bulk.len > 3 * blocksize
    /\ Len(bulk.calls) = 2
    /\ ShortAt(2)
    /\ bulk.result = Err("ReadError")

\* C6 (as claimed): a short chunk has triggered exactly one abort_transfers on
\* the pipe of the transfer before the error is returned.
C6_ShortChunkAbortsOnce ==
    (BulkDone /\ \E i \in 1..Len(bulk.calls) : ShortAt(i)) =>
        Cardinality({ j \in 1..Len(bulk.calls) :
                        /\ bulk.calls[j].fn \in {"abort_transfers", "FT_AbortPipe"}
                        /\ bulk.calls[j].endpoint = bulk.calls[1].endpoint }) = 1

\* The chunking of C7 that the code does carry out: when no chunk fails, there
\* are ceil(len / blocksize) bulk calls, in buffer order, each of blocksize
\* bytes but a last one of len mod blocksize when that is not 0.
ChunkingInBlocks ==
    (BulkDone /\ bulk.result.kind = "Ok") =>
        /\ Len(bulk.calls) = CeilBlocks(bulk.len)
        /\ \A i \in 1..Len(bulk.calls) :
            /\ bulk.calls[i].offset = (i - 1) * blocksize
            /\ bulk.calls[i].amount = bulk.calls[i].len
            /\ bulk.calls[i].len =
                 IF i = Len(bulk.calls) /\ bulk.len % blocksize # 0
                 THEN bulk.len % blocksize ELSE blocksize

\* C7 (as claimed): a transfer of len bytes whose chunks all succeed is made
\* of ceil(len / blocksize) bulk calls in buffer order, of blocksize bytes but
\* for a last one of len mod blocksize, and returns the byte count len.
C7_ChunksAndTotal ==
    (/\ BulkDone
     /\ \A i \in 1..CeilBlocks(bulk.len) : bulk.answers[i] = "full") =>
        /\ ChunkingInBlocks
        /\ Len(bulk.calls) = CeilBlocks(bulk.len)
        /\ bulk.len = 100000 =>
              [i \in 1..Len(bulk.calls) |-> bulk.calls[i].len]
                 = <<32768, 32768, 32768, 1696>>
        /\ bulk.result = Ok(<<bulk.len>>)

(***************************************************************************)
(* lib.rs: Device::set_timeout and Device::get_timeout, on one session.    *)
(* A Duration is held as its whole milliseconds, in three base-65536       *)
(* digits (highest first), and the nanoseconds below a millisecond.  A     *)
(* c_ulong is 32 bits wide: two such digits.                               *)
(***************************************************************************)
Duration(millis, nanos) == [millis |-> millis, nanos |-> nanos]

\* Duration::as_millis: the whole milliseconds; the rest is dropped.
as_millis(timeout) == timeout.millis

\* `as c_ulong` of a wider integer: the low 32 bits.
as_c_ulong(millis) == <<millis[2], millis[3]>>

\* Duration::from_millis(timeout_millis as u64).
from_millis(timeout_millis) ==
    Duration(<<0, timeout_millis[1], timeout_millis[2]>>, 0)

\* The durations a caller sets: 1 ms, 70000 ms, 1.5 ms, and 2^32 + 1 ms.
Durations ==
    { Duration(<<0, 0, 1>>, 0), Duration(<<0, 1, 4464>>, 0),
      Duration(<<0, 0, 1>>, 500000), Duration(<<1, 0, 1>>, 0) }

\* The timeout of a pipe of a freshly opened session: 5 seconds.
DefaultTimeout == <<0, 5000>>

\* What the native layer answers to a timeout call.
TimeoutAnswers == {FT_OK, FT_IO_ERROR, FT_UNKNOWN}

\* Device::set_timeout.
set_timeout(handle, pipe, timeout, status) ==
    Out(<<[fn |-> "FT_SetPipeTimeout", handle |-> handle,
           pipe |-> pipe_as_c_uchar(pipe),
           arg |-> as_c_ulong(as_millis(timeout)), status |-> status]>>,
        d3xx_error(status))

\* Device::get_timeout; timeout_millis is what FT_GetPipeTimeout wrote.
get_timeout(handle, pipe, status, timeout_millis) ==
    LET call == Call("FT_GetPipeTimeout", handle, pipe_as_c_uchar(pipe), status)
    IN  IF d3xx_error(status).kind # "Ok" THEN Out(<<call>>, d3xx_error(status))
        ELSE Out(<<call>>, Ok(<<from_millis(timeout_millis)>>))

\* The pipe a native call names, by its address.
PipeAt(address) == CHOOSE pipe \in Pipe : pipe_as_c_uchar(pipe) = address

\* tmo.table is the native layer's timeout of each pipe of the session;
\* tmo.set[pipe] holds the duration of the last set_timeout on the pipe that
\* returned Ok, and tmo.sets counts the calls of set_timeout.
InitTimeout ==
    /\ Idle
    /\ xl = <<>>
    /\ bulk = <<>>
    /\ info = <<>>
    /\ enum = <<>>
    /\ dec = <<>>
    /\ pure = <<>>
    /\ tmo = [handle |-> 1,
              table |-> [pipe \in Pipe |-> DefaultTimeout],
              set |-> [pipe \in Pipe |-> <<>>],
              sets |-> 0,
              op |-> [name |-> "open", pipe |-> "In0"],
              calls |-> <<>>,
              result |-> NoResult]

\* set_timeout(pipe, timeout): the native layer stores the value it is handed
\* when it answers FT_OK.
SetTimeout ==
    /\ tmo.sets < MaxSets
    /\ \E pipe \in Pipe, timeout \in Durations, status \in TimeoutAnswers :
        LET out == set_timeout(tmo.handle, pipe, timeout, status)
            call == out.calls[1]
        IN  tmo' = [tmo EXCEPT
                !.table = IF call.status = FT_OK
                          THEN [@ EXCEPT ![PipeAt(call.pipe)] = call.arg] ELSE @,
                !.set = IF out.result.kind = "Ok"
                        THEN [@ EXCEPT ![pipe] = <<timeout>>] ELSE @,
                !.sets = @ + 1,
                !.op = [name |-> "set_timeout", pipe |-> pipe],
                !.calls = out.calls,
                !.result = out.result]
    /\ UNCHANGED <<sessVars, xl, bulk, info, enum, dec, pure>>

\* get_timeout(pipe): the native layer writes the value it stores for the pipe
\* when it answers FT_OK.
GetTimeout ==
    /\ \E pipe \in Pipe, status \in TimeoutAnswers :
        LET out == get_timeout(tmo.handle, pipe, status,
                               IF status = FT_OK THEN tmo.table[pipe] ELSE <<0, 0>>)
        IN  tmo' = [tmo EXCEPT
                !.op = [name |-> "get_timeout", pipe |-> pipe],
                !.calls = out.calls,
                !.result = out.result]
    /\ UNCHANGED <<sessVars, xl, bulk, info, enum, dec, pure>>

NextTimeout ==
    \/ SetTimeout
    \/ GetTimeout

SpecTimeout == InitTimeout /\ [][NextTimeout]_vars

\* A get_timeout that returned a duration for a pipe that was set before.
GotAfterSet ==
    /\ tmo.op.name = "get_timeout"
    /\ tmo.result.kind = "Ok"
    /\ tmo.set[tmo.op.pipe] # <<>>

\* C11 (as claimed): a get_timeout that follows a set_timeout(pipe, d) on the
\* same pipe and session, with no other set_timeout on that pipe in between,
\* returns exactly d.
C11_TimeoutRoundTrip ==
    GotAfterSet => tmo.result.val = tmo.set[tmo.op.pipe]

\* What does hold: a duration of whole milliseconds below 2^32 ms comes back
\* as it was set; any other comes back without its part below a millisecond
\* and reduced modulo 2^32 ms.
WholeMillisRoundTrip ==
    GotAfterSet =>
        LET d == tmo.set[tmo.op.pipe][1]
        IN  /\ tmo.result.val = <<Duration(<<0, d.millis[2], d.millis[3]>>, 0)>>
            /\ (d.nanos = 0 /\ d.millis[1] = 0) => tmo.result.val = <<d>>
(***************************************************************************)
(* lib.rs: list_device and DeviceInfo, over the native device info list.   *)
(* A node is an FT_DEVICE_LIST_INFO_NODE, held by its location id, its     *)
(* two text buffers and its handle (0 while the device is not open).       *)
(***************************************************************************)
MAX_DEVICES == 32
SerialCap == 16
DescCap == 32

\* A text buffer of `cap` bytes that holds `text`, nul bytes after it.
Buffer(text, cap) == [i \in 1..cap |-> IF i <= Len(text) THEN text[i] ELSE 0]

Node(locId, serial, handle) ==
    [LocId |-> locId, SerialNumber |-> Buffer(serial, SerialCap),
     Description |-> Buffer(<<>>, DescCap), ftHandle |-> handle]

\* std::mem::zeroed() / FT_DEVICE_LIST_INFO_NODE::default().
ZeroedNode == Node(0, <<>>, 0)

\* DeviceInfo::new(index, node).
DeviceInfo_new(index, node) == [index |-> index, inner |-> node]

\* DeviceInfo::raw_handle: None (the empty tuple) for a device not open.
raw_handle(x) == IF x.inner.ftHandle = 0 THEN <<>> ELSE <<x.inner.ftHandle>>

\* What the native layer answers to a call about the device info list.
ListAnswers == {FT_OK, FT_IO_ERROR, FT_UNKNOWN}

\* A crash of the process, one outcome of memory written out of bounds.
Fault == [kind |-> "Fault", err |-> "", val |-> <<>>]

\* What follows once the native layer wrote past the `devices` array: the
\* bounds check of `devices[..num_devices]` panics, or the process crashes.
Overrun == {Panic, Fault}

\* FT_CreateDeviceInfoList(&num_devices): arg is the count it writes.
FT_CreateDeviceInfoList(list, status) ==
    [fn |-> "FT_CreateDeviceInfoList", handle |-> 0, pipe |-> 0,
     arg |-> <<IF status = FT_OK THEN Len(list) ELSE 0>>, status |-> status]

\* FT_GetDeviceInfoList(&devices, &num_devices): arg is the number of array
\* slots it fills, one per device of its list.
FT_GetDeviceInfoList(list, status) ==
    [fn |-> "FT_GetDeviceInfoList", handle |-> 0, pipe |-> 0,
     arg |-> <<IF status = FT_OK THEN Len(list) ELSE 0>>, status |-> status]

\* A mutant of list_device: the records are numbered from 1.
list_device_from_one(list, create_status, get_status, overrun) ==
    LET create == FT_CreateDeviceInfoList(list, create_status)
        get == FT_GetDeviceInfoList(list, get_status)
    IN  IF d3xx_error(create_status).kind # "Ok"
        THEN Out(<<create>>, d3xx_error(create_status))
        ELSE IF d3xx_error(get_status).kind # "Ok"
        THEN Out(<<create, get>>, d3xx_error(get_status))
        ELSE IF get.arg[1] > MAX_DEVICES THEN Out(<<create, get>>, overrun)
        ELSE Out(<<create, get>>,
                 Ok([i \in 1..get.arg[1] |-> DeviceInfo_new(i, list[i])]))

\* list_device(); `list` is the native layer's device list, the statuses are
\* what its two calls answer, `overrun` what follows an array overrun.
list_device(list, create_status, get_status, overrun) ==
    LET create == FT_CreateDeviceInfoList(list, create_status)
        get == FT_GetDeviceInfoList(list, get_status)
        num_devices == get.arg[1]
        devices == [i \in 1..MAX_DEVICES |->
                        IF i <= get.arg[1] THEN list[i] ELSE ZeroedNode]
    IN  IF d3xx_error(create_status).kind # "Ok"
        THEN Out(<<create>>, d3xx_error(create_status))
        ELSE IF d3xx_error(get_status).kind # "Ok"
        THEN Out(<<create, get>>, d3xx_error(get_status))
        ELSE IF num_devices > MAX_DEVICES THEN Out(<<create, get>>, overrun)
        ELSE Out(<<create, get>>,
                 Ok([i \in 1..num_devices |-> DeviceInfo_new(i - 1, devices[i])]))

\* The device lists of the native layer: up to MaxCount devices, by rising
\* or by falling location id.
NativeLists ==
    { [i \in 1..n |-> Node(IF up THEN i ELSE n + 1 - i, <<65>>, 0)] :
        n \in 0..MaxCount, up \in BOOLEAN }

InitEnum ==
    /\ Idle
    /\ xl = <<>>
    /\ bulk = <<>>
    /\ tmo = <<>>
    /\ info = <<>>
    /\ dec = <<>>
    /\ pure = <<>>
    /\ enum \in { [list |-> l, calls |-> <<>>, result |-> NoResult] : l \in NativeLists }

ListDevices ==
    /\ \E create_status \in ListAnswers, get_status \in ListAnswers, overrun \in Overrun :
        LET out == list_device(enum.list, create_status, get_status, overrun)
        IN  enum' = [enum EXCEPT !.calls = out.calls, !.result = out.result]
    /\ UNCHANGED <<sessVars, xl, bulk, tmo, info, dec, pure>>

NextEnum == ListDevices

SpecEnum == InitEnum /\ [][NextEnum]_vars

\* C13: the records list_device returns are the native layer's, in its order
\* and as many as it counted, and the record at position i (from 0) has the
\* index i.
C13_RecordsInNativeOrder ==
    enum.result.kind = "Ok" =>
        /\ Len(enum.result.val) = Len(enum.list)
        /\ Len(enum.result.val) = enum.calls[1].arg[1]
        /\ \A i \in 1..Len(enum.list) :
            /\ enum.result.val[i].inner = enum.list[i]
            /\ enum.result.val[i].index = i - 1

\* C13 witness: three devices, reported by falling location id, were listed.
C13_Witness ==
    /\ enum.result.kind = "Ok"
    /\ Len(enum.result.val) = 3
    /\ enum.result.val[1].inner.LocId = 3
    /\ enum.result.val[3].index = 2

\* C19 (as claimed): list_device returns at most 32 records, the native layer
\* fills at most the 32 slots of the array, and a count above 32 ends in an
\* error or a panic.
C19_AtMost32Slots ==
    /\ enum.result.kind = "Ok" => Len(enum.result.val) <= MAX_DEVICES
    /\ \A i \in 1..Len(enum.calls) :
        enum.calls[i].fn = "FT_GetDeviceInfoList" => enum.calls[i].arg[1] <= MAX_DEVICES
    /\ (enum.result.kind # "None" /\ Len(enum.list) > MAX_DEVICES) =>
        enum.result.kind \in {"Err", "Panic"}
(***************************************************************************)
(* lib.rs: Device::info of one session, beside a thread that enumerates    *)
(* and devices that come and go.  info.bus is the attached devices in the  *)
(* native layer's order, info.list the device info list the native layer   *)
(* built at the last FT_CreateDeviceInfoList.  info() is taken in its two  *)
(* native steps: index(), then FT_GetDeviceInfoDetail.                     *)
(***************************************************************************)
LocId(d) == IF d = "devA" THEN 1 ELSE 2

\* A mutant of Device_index: the position is counted from 1.
Device_index_from_one(handle, listing) ==
    IF listing.result.kind # "Ok" THEN listing
    ELSE LET devices == listing.result.val
             found == { i \in 1..Len(devices) : raw_handle(devices[i]) = <<handle>> }
         IN  IF found = {} THEN Out(listing.calls, Err("DeviceNotFound"))
             ELSE Out(listing.calls, Ok(<<CHOOSE i \in found : \A j \in found : i <= j>>))

\* Device::index; `listing` is what its list_device() call yields.  Ok carries
\* the position, from 0, of the first record whose handle is the session's.
Device_index(handle, listing) ==
    IF listing.result.kind # "Ok" THEN listing
    ELSE LET devices == listing.result.val
             found == { i \in 1..Len(devices) : raw_handle(devices[i]) = <<handle>> }
         IN  IF found = {} THEN Out(listing.calls, Err("DeviceNotFound"))
             ELSE Out(listing.calls,
                      Ok(<<(CHOOSE i \in found : \A j \in found : i <= j) - 1>>))

\* FT_GetDeviceInfoDetail(index, ...): arg is the index it is asked for.
FT_GetDeviceInfoDetail(index, status) ==
    [fn |-> "FT_GetDeviceInfoDetail", handle |-> 0, pipe |-> 0,
     arg |-> <<index>>, status |-> status]

\* The native layer answers FT_OK only for an index inside its list.
DetailAnswers(index, list) ==
    IF index < Len(list) THEN ListAnswers ELSE ListAnswers \ {FT_OK}

\* Device::info after `self.index()?`: the detail query at `index`, and the
\* record made of what it wrote into device_info.
info_detail(index, status, device_info) ==
    LET detail == FT_GetDeviceInfoDetail(index, status)
    IN  IF d3xx_error(status).kind # "Ok" THEN Out(<<detail>>, d3xx_error(status))
        ELSE Out(<<detail>>, Ok(<<DeviceInfo_new(index, device_info)>>))

\* The node of device d on the bus; the session's handle is on devA while
\* devA stays attached.
BusNode(d, handle) == Node(LocId(d), SerialNumber(d), handle)

Buses ==
    { <<>>, <<BusNode("devA", 1)>>, <<BusNode("devB", 0)>>,
      <<BusNode("devA", 1), BusNode("devB", 0)>>,
      <<BusNode("devB", 0), BusNode("devA", 1)>> }

OnBus(d) == \E i \in 1..Len(info.bus) : info.bus[i].LocId = LocId(d)

InitInfo ==
    /\ Idle
    /\ xl = <<>>
    /\ bulk = <<>>
    /\ tmo = <<>>
    /\ enum = <<>>
    /\ dec = <<>>
    /\ pure = <<>>
    /\ info \in { [bus |-> b, list |-> <<>>, handle |-> 1, pc |-> "idle", index |-> 0,
                   seen |-> <<>>, listed |-> FALSE, rebuilt |-> FALSE,
                   calls |-> <<>>, result |-> NoResult] : b \in Buses }

\* A device is plugged in, before or after the others; it is not open.
InfoAttach ==
    /\ \E d \in Devices, front \in BOOLEAN :
        /\ ~OnBus(d)
        /\ info' = [info EXCEPT !.bus = IF front THEN <<BusNode(d, 0)>> \o @
                                         ELSE @ \o <<BusNode(d, 0)>>]
    /\ UNCHANGED <<sessVars, xl, bulk, tmo, enum, dec, pure>>

\* A device is unplugged.
InfoDetach ==
    /\ \E i \in 1..Len(info.bus) :
        info' = [info EXCEPT !.bus = SubSeq(@, 1, i - 1) \o SubSeq(@, i + 1, Len(@))]
    /\ UNCHANGED <<sessVars, xl, bulk, tmo, enum, dec, pure>>

\* list_device() on another thread: its FT_CreateDeviceInfoList succeeds and
\* rebuilds the native layer's list from the bus.
Enumerate ==
    /\ info' = [info EXCEPT !.list = info.bus,
                            !.rebuilt = (@ \/ info.pc = "indexed")]
    /\ UNCHANGED <<sessVars, xl, bulk, tmo, enum, dec, pure>>

\* info(), first step: index() enumerates and looks for the session's handle.
InfoIndex ==
    /\ info.pc \in {"idle", "done"}
    /\ \E create_status \in ListAnswers, get_status \in ListAnswers :
        LET list == IF create_status = FT_OK THEN info.bus ELSE info.list
            listing == list_device(list, create_status, get_status, Panic)
            ix == Device_index(info.handle, listing)
        IN  info' = [info EXCEPT
                !.list = list,
                !.listed = (listing.result.kind = "Ok"),
                !.seen = listing.result.val,
                !.rebuilt = FALSE,
                !.pc = IF ix.result.kind = "Ok" THEN "indexed" ELSE "done",
                !.index = IF ix.result.kind = "Ok" THEN ix.result.val[1] ELSE 0,
                !.calls = ix.calls,
                !.result = IF ix.result.kind = "Ok" THEN NoResult ELSE ix.result]
    /\ UNCHANGED <<sessVars, xl, bulk, tmo, enum, dec, pure>>

\* info(), second step: the detail query by index, on the list as it is now.
InfoDetail ==
    /\ info.pc = "indexed"
    /\ \E status \in DetailAnswers(info.index, info.list) :
        LET out == info_detail(info.index, status,
                               IF status = FT_OK THEN info.list[info.index + 1]
                               ELSE ZeroedNode)
        IN  info' = [info EXCEPT !.pc = "done",
                                 !.calls = @ \o out.calls,
                                 !.result = out.result]
    /\ UNCHANGED <<sessVars, xl, bulk, tmo, enum, dec, pure>>

NextInfo ==
    \/ InfoAttach
    \/ InfoDetach
    \/ Enumerate
    \/ InfoIndex
    \/ InfoDetail

SpecInfo == InitInfo /\ [][NextInfo]_vars

\* The positions of the records index() saw that carry the session's handle.
Matches == { i \in 1..Len(info.seen) : info.seen[i].inner.ftHandle = info.handle }

\* C12: an info() whose enumeration succeeded returns DeviceNotFound, with no
\* detail query, when no record it enumerated carries the session's handle;
\* when one does, and no other thread rebuilt the list before the detail
\* query, and the query succeeds, it returns the record at the position where
\* the handle matched, with that position as its index.
C12_InfoNotFoundOrMatched ==
    (info.pc = "done" /\ info.listed) =>
        /\ Matches = {} =>
            /\ info.result = Err("DeviceNotFound")
            /\ \A i \in 1..Len(info.calls) : info.calls[i].fn # "FT_GetDeviceInfoDetail"
        /\ (/\ Matches # {}
            /\ ~info.rebuilt
            /\ info.calls[Len(info.calls)].status = FT_OK) =>
               \E i \in Matches :
                   /\ info.result = Ok(<<info.seen[i]>>)
                   /\ info.result.val[1].index = i - 1

\* C12 witness: info() found the session's device second in the list and
\* returned its record.
C12_Witness ==
    /\ info.pc = "done"
    /\ info.result.kind = "Ok"
    /\ ~info.rebuilt
    /\ info.result.val[1].index = 1
    /\ info.result.val[1].inner.ftHandle = info.handle

\* C12 witness of the other case: the session's device was detached and
\* info() returned DeviceNotFound though another device is listed.
C12_WitnessDetached ==
    /\ info.pc = "done"
    /\ info.listed
    /\ Len(info.seen) = 1
    /\ info.result = Err("DeviceNotFound")

\* C18 (as claimed): whenever info() succeeds, the record it returns carries
\* the session's handle, whatever another thread's enumeration did between its
\* two steps.
C18_InfoIsOwnDevice ==
    (info.pc = "done" /\ info.result.kind = "Ok") =>
        info.result.val[1].inner.ftHandle = info.handle
(***************************************************************************)
(* bindings.rs: c_str_to_string, on the SerialNumber and Description       *)
(* buffers of a node.  `beyond` is the memory that follows the buffer.     *)
(***************************************************************************)
\* CStr::to_str: the bytes must be UTF-8; of the bytes drawn here the ASCII
\* ones are, and 0xFF never is.
to_str(bytes) ==
    IF \A i \in 1..Len(bytes) : bytes[i] < 128 THEN Ok(<<bytes>>) ELSE Err("Utf8Error")

\* c_str_to_string(s): CStr::from_ptr scans from the start of s to the first
\* nul byte, wherever that is; `read` counts the bytes it reads.  A scan that
\* finds no nul byte in the memory modelled ends in a crash.
c_str_to_string(s, beyond) ==
    LET memory == s \o beyond
        nul == { i \in 1..Len(memory) : memory[i] = 0 }
        first == CHOOSE i \in nul : \A j \in nul : i <= j
    IN  IF nul = {} THEN [result |-> Fault, read |-> Len(memory) + 1]
        ELSE [result |-> IF to_str(SubSeq(memory, 1, first - 1)).kind = "Ok"
                         THEN to_str(SubSeq(memory, 1, first - 1))
                         ELSE Err("OtherError"),
              read |-> first]

\* The buffers the native layer may hand over: k bytes of text, with the byte
\* 0xFF at position `bad` if that is not 0, then a nul byte if there is room,
\* and the byte `rest` in what remains.
TextBuffers(cap) ==
    { [i \in 1..cap |-> IF i <= k THEN (IF i = bad THEN 255 ELSE 65)
                        ELSE IF i = k + 1 THEN 0 ELSE rest] :
        k \in 0..cap, bad \in 0..cap, rest \in {0, 66} }

\* What may follow the buffer in memory.
Beyond == UNION { [1..n -> {0, 66}] : n \in 0..MaxBeyond }

\* The node whose text buffer `field` is s.
NodeWith(field, s) ==
    IF field = "SerialNumber" THEN [Node(1, <<>>, 0) EXCEPT !.SerialNumber = s]
    ELSE [Node(1, <<>>, 0) EXCEPT !.Description = s]

InitDecode ==
    /\ Idle
    /\ xl = <<>>
    /\ bulk = <<>>
    /\ tmo = <<>>
    /\ info = <<>>
    /\ enum = <<>>
    /\ pure = <<>>
    /\ dec \in { [field |-> f[1], s |-> s, beyond |-> b,
                  decoded |-> NoResult, read |-> 0, listed |-> NoResult] :
                  f \in {<<"SerialNumber", SerialCap>>, <<"Description", DescCap>>},
                  s \in TextBuffers(SerialCap) \cup TextBuffers(DescCap),
                  b \in Beyond }
    /\ Len(dec.s) = IF dec.field = "SerialNumber" THEN SerialCap ELSE DescCap

\* DeviceInfo::serial_number / DeviceInfo::description of the node.
Decode ==
    /\ LET out == c_str_to_string(dec.s, dec.beyond)
       IN  dec' = [dec EXCEPT !.decoded = out.result, !.read = out.read]
    /\ UNCHANGED <<sessVars, xl, bulk, tmo, info, enum, pure>>

\* list_device() while the node is the one device the native layer lists.
ListNode ==
    /\ LET out == list_device(<<NodeWith(dec.field, dec.s)>>, FT_OK, FT_OK, Panic)
       IN  dec' = [dec EXCEPT !.listed = out.result]
    /\ UNCHANGED <<sessVars, xl, bulk, tmo, info, enum, pure>>

NextDecode ==
    \/ Decode
    \/ ListNode

SpecDecode == InitDecode /\ [][NextDecode]_vars

\* A buffer with no nul byte within its capacity.
Unterminated(s) == \A i \in 1..Len(s) : s[i] # 0

\* A buffer whose text, the bytes before its first nul byte, is not UTF-8.
NotUtf8(s) ==
    \E i \in 1..Len(s) : s[i] >= 128 /\ \A j \in 1..(i - 1) : s[j] # 0

\* C14 (as claimed): a buffer that is not valid UTF-8, or has no nul byte
\* within its capacity, decodes to an error: no panic or crash, no string, no
\* byte read beyond the buffer; and list_device returns an error for it, not
\* a record.
C14_BadBufferIsDecodeError ==
    (Unterminated(dec.s) \/ NotUtf8(dec.s)) =>
        /\ dec.decoded.kind # "None" =>
            /\ dec.decoded.kind = "Err"
            /\ dec.read <= Len(dec.s)
        /\ dec.listed.kind # "None" => dec.listed.kind = "Err"

\* What does hold: a buffer with a nul byte within its capacity is read up to
\* that byte only, and decodes to its text, or to OtherError when the text is
\* not UTF-8.
TerminatedBufferDecodes ==
    (~Unterminated(dec.s) /\ dec.decoded.kind # "None") =>
        /\ dec.read <= Len(dec.s)
        /\ IF NotUtf8(dec.s) THEN dec.decoded = Err("OtherError")
           ELSE /\ dec.decoded.kind = "Ok"
                /\ dec.decoded.val[1] = SubSeq(dec.s, 1, dec.read - 1)
(***************************************************************************)
(* lib.rs: the pure functions Pipe::is_read_pipe, Pipe::is_write_pipe and  *)
(* Version::new.  A u32 is held as its two 16-bit halves, <<high, low>>.   *)
(***************************************************************************)
\* `version >> n` on a u32, for n up to 31.
shr(version, n) ==
    IF n >= 16 THEN <<0, version[1] \div 2^(n - 16)>>
    ELSE <<version[1] \div 2^n,
           (version[1] % 2^n) * 2^(16 - n) + version[2] \div 2^n>>

\* `x & 0xFF` on a u32.
and_0xFF(x) == <<0, x[2] % 256>>

\* `x as u8` on a u32.
as_u8(x) == x[2] % 256

\* A mutant of Version_new: the shifts of minor and svn are swapped.
Version_new_swapped(version) ==
    [major |-> as_u8(and_0xFF(shr(version, 24))),
     minor |-> as_u8(and_0xFF(shr(version, 8))),
     svn |-> as_u8(and_0xFF(shr(version, 16))),
     build |-> as_u8(and_0xFF(version))]

\* Version::new(version).
Version_new(version) ==
    [major |-> as_u8(and_0xFF(shr(version, 24))),
     minor |-> as_u8(and_0xFF(shr(version, 16))),
     svn |-> as_u8(and_0xFF(shr(version, 8))),
     build |-> as_u8(and_0xFF(version))]

\* The u32 a<<24 | b<<16 | c<<8 | d of four bytes.
U32(a, b, c, d) == <<a * 256 + b, c * 256 + d>>

\* The bytes a raw version number is made of, the boundaries among them.
VersionBytes == {0, 1, 127, 128, 255}

InitPure ==
    /\ Idle
    /\ xl = <<>>
    /\ bulk = <<>>
    /\ tmo = <<>>
    /\ info = <<>>
    /\ enum = <<>>
    /\ dec = <<>>
    /\ pure \in { [fn |-> "Pipe", arg |-> <<p>>, out |-> <<>>] : p \in Pipe }
           \cup { [fn |-> "Version", arg |-> <<a, b, c, d>>, out |-> <<>>] :
                    a \in VersionBytes, b \in VersionBytes,
                    c \in VersionBytes, d \in VersionBytes }

\* pipe.is_read_pipe() and pipe.is_write_pipe().
PipeDirection ==
    /\ pure.fn = "Pipe"
    /\ pure' = [pure EXCEPT !.out = <<is_read_pipe(pure.arg[1]),
                                      is_write_pipe(pure.arg[1])>>]
    /\ UNCHANGED <<sessVars, xl, bulk, tmo, info, enum, dec>>

\* Version::new(a<<24 | b<<16 | c<<8 | d).
VersionNew ==
    /\ pure.fn = "Version"
    /\ pure' = [pure EXCEPT !.out = <<Version_new(U32(pure.arg[1], pure.arg[2],
                                                     pure.arg[3], pure.arg[4]))>>]
    /\ UNCHANGED <<sessVars, xl, bulk, tmo, info, enum, dec>>

NextPure ==
    \/ PipeDirection
    \/ VersionNew

SpecPure == InitPure /\ [][NextPure]_vars

\* C15: of is_read_pipe and is_write_pipe exactly one is true of a pipe, and
\* is_read_pipe is true exactly when bit 0x80 of the pipe's address is set;
\* In0..In3 are 0x82..0x85 and Out0..Out3 are 0x02..0x05.
C15_ExactlyOneDirection ==
    /\ (pure.fn = "Pipe" /\ pure.out # <<>>) =>
        /\ pure.out[1] # pure.out[2]
        /\ pure.out[1] <=> (pipe_as_c_uchar(pure.arg[1]) \div 128) % 2 = 1
    /\ <<pipe_as_c_uchar("In0"), pipe_as_c_uchar("In1"),
         pipe_as_c_uchar("In2"), pipe_as_c_uchar("In3")>> = <<130, 131, 132, 133>>
    /\ <<pipe_as_c_uchar("Out0"), pipe_as_c_uchar("Out1"),
         pipe_as_c_uchar("Out2"), pipe_as_c_uchar("Out3")>> = <<2, 3, 4, 5>>

\* C15 witness: the direction of In3 was asked: a read pipe, not a write pipe.
C15_Witness ==
    /\ pure.fn = "Pipe"
    /\ pure.arg = <<"In3">>
    /\ pure.out = <<TRUE, FALSE>>

\* C16: Version::new of a<<24 | b<<16 | c<<8 | d has major a, minor b, svn c
\* and build d, for the bytes 0x00 and 0xFF as for the others.
C16_VersionFields ==
    (pure.fn = "Version" /\ pure.out # <<>>) =>
        pure.out[1] = [major |-> pure.arg[1], minor |-> pure.arg[2],
                       svn |-> pure.arg[3], build |-> pure.arg[4]]

\* C16 witness: the version 0xFF00FF00 was decoded.
C16_Witness ==
    /\ pure.fn = "Version"
    /\ pure.arg = <<255, 0, 255, 0>>
    /\ pure.out # <<>>
    /\ pure.out[1].major = 255
    /\ pure.out[1].minor = 0

\* C17 (as claimed): the native transfer of a read or write is issued on the
\* address of the pipe the caller named, and so is its recovery abort; no
\* transfer goes to another pipe.
C17_TransferOnNamedPipe ==
    op.name \in {"read", "write"} =>
        \A i \in 1..Len(calls) :
            calls[i].fn \in {"FT_ReadPipeEx", "FT_WritePipeEx", "FT_AbortPipe"} =>
                calls[i].pipe = pipe_as_c_uchar(op.pipe)

\* What does hold: every read transfers on the pipe it was called with, and
\* every write on the address 0x02, whichever write pipe it was called with.
TransferPipes ==
    op.name \in {"read", "write"} =>
        \A i \in 1..Len(calls) :
            /\ calls[i].fn = "FT_ReadPipeEx" => calls[i].pipe = pipe_as_c_uchar(op.pipe)
            /\ calls[i].fn = "FT_WritePipeEx" => calls[i].pipe = pipe_as_c_uchar("Out0")
            /\ calls[i].fn = "FT_AbortPipe" => calls[i].pipe = pipe_as_c_uchar(op.pipe)
====
